---- MODULE Spec2Model ----
(***************************************************************************)
(* Model of the SoundFont 2 decoder: RIFF chunk framing (chunk.go), the    *)
(* sdta decoder (samples.go), the INFO decoder, the pdta decoder and       *)
(* ReadSoundFont, which assembles the three.                               *)
(*                                                                         *)
(* A reader is the sequence of bytes it has not delivered yet.  The input  *)
(* source delivers the list one piece at a time: a complete chunk, a       *)
(* truncated final chunk, or the end of the input.  Every finite input is  *)
(* such a sequence of pieces, because parse consumes one chunk per call.   *)
(***************************************************************************)
EXTENDS Integers, Sequences, FiniteSets, TLC

VARIABLES
    r,          \* bytes of the decoder's reader that are still unread
    eof,        \* TRUE once the source has delivered its last byte
    pc,         \* the decoder's position
    ret,        \* "pending", "value" (pointer returned) or "nil"
    err,        \* the returned error
    sound,      \* SoundFontSamples under construction
    info,       \* SoundFontInfo under construction
    infoChunks, \* ReadSoundFontInfo's map: recognised tag -> seen
    hydra,      \* SoundFontHydra under construction
    pdtaChunks, \* ReadSoundFontHydra's map: mandatory tag -> seen
    fedType,    \* history: the list-type tag delivered, <<>> if none
    dupFed,     \* history: INFO tags delivered a second time
    fedSize,    \* history: declared size of the last complete chunk delivered per tag, -1 if none
    truncFed,   \* history: the source ended inside a chunk
    src,        \* ReadSoundFont: bytes of its argument r that are still unread
    outer,      \* ReadSoundFont: bytes of the RIFF payload reader that are still unread
    stage,      \* ReadSoundFont's position; "none" when a decoder runs on its own
    locals,     \* ReadSoundFont's info, sound and hydra: <<>> is nil, <<v>> points to v
    result,     \* what ReadSoundFont returned: the *SoundFont and the error
    file,       \* history: the layout of the file the source holds
    kind,       \* history: what the second call is for, "once" if there is none
    again,      \* the layout of the file of the second call, while it is to come
    first       \* history: the file of the first call and what it returned, once a second has begun

decoded == <<sound, info, infoChunks, hydra, pdtaChunks>>

bankVars == <<src, outer, stage, locals, result, file, kind, again, first>>

vars == <<r, eof, pc, ret, err, decoded, fedType, dupFed, fedSize, truncFed, bankVars>>

(***************************************************************************)
(* Bounds of the model.                                                    *)
(***************************************************************************)
MaxSmplBytes == 4
MaxInfoChunks == 3
LargeChunk == 1024
MaxRecs == 2
MaxEmpty == 1

(***************************************************************************)
(* Bytes and integers.                                                     *)
(***************************************************************************)
Take(b, n) == SubSeq(b, 1, n)
Drop(b, n) == SubSeq(b, n + 1, Len(b))

\* binary.LittleEndian: the unsigned value of a byte sequence
RECURSIVE LittleEndian(_)
LittleEndian(b) == IF b = <<>> THEN 0 ELSE b[1] + 256 * LittleEndian(Tail(b))

\* the four bytes of a uint32 length field
PutUint32(n) == <<n % 256, (n \div 256) % 256, (n \div 65536) % 256, (n \div 16777216) % 256>>

\* Go's | on two non-negative bit patterns
RECURSIVE BitOr(_, _)
BitOr(a, b) ==
    IF a = 0 THEN b
    ELSE IF b = 0 THEN a
    ELSE (IF a % 2 = 1 \/ b % 2 = 1 THEN 1 ELSE 0) + 2 * BitOr(a \div 2, b \div 2)

\* int16(x) << k, as a 16-bit pattern: the bits shifted out are lost
Shl16(x, k) == (x * (2 ^ k)) % 65536

\* a 16-bit pattern read as a signed int16, an 8-bit pattern as a signed int8
Int16(u) == IF u >= 32768 THEN u - 65536 ELSE u
Int8(u) == IF u >= 128 THEN u - 256 ELSE u

(***************************************************************************)
(* Errors.                                                                 *)
(***************************************************************************)
Errorf(msg, arg) == [msg |-> msg, arg |-> arg]
Nil == Errorf("nil", <<>>)
EOF == Errorf("EOF", <<>>)
ErrUnexpectedEOF == Errorf("unexpected EOF", <<>>)

(***************************************************************************)
(* Chunk tags.                                                             *)
(***************************************************************************)
smpl == <<115, 109, 112, 108>>
sm24 == <<115, 109, 50, 52>>
junk == <<74, 85, 78, 75>>
INFO == <<73, 78, 70, 79>>
ifil == <<105, 102, 105, 108>>
isng == <<105, 115, 110, 103>>
INAM == <<73, 78, 65, 77>>
irom == <<105, 114, 111, 109>>
iver == <<105, 118, 101, 114>>
ICRD == <<73, 67, 82, 68>>
IENG == <<73, 69, 78, 71>>
IPRD == <<73, 80, 82, 68>>
ICOP == <<73, 67, 79, 80>>
ICMT == <<73, 67, 77, 84>>
ISFT == <<73, 83, 70, 84>>

phdr == <<112, 104, 100, 114>>
pbag == <<112, 98, 97, 103>>
pmod == <<112, 109, 111, 100>>
pgen == <<112, 103, 101, 110>>
inst == <<105, 110, 115, 116>>
ibag == <<105, 98, 97, 103>>
imod == <<105, 109, 111, 100>>
igen == <<105, 103, 101, 110>>
shdr == <<115, 104, 100, 114>>

RIFF == <<82, 73, 70, 70>>
LIST == <<76, 73, 83, 84>>
sfbk == <<115, 102, 98, 107>>
sdta == <<115, 100, 116, 97>>
pdta == <<112, 100, 116, 97>>

\* the keys of pdtaChunks
HydraTags == {phdr, pbag, pmod, pgen, inst, ibag, imod, igen, shdr}

\* the keys of infoChunks
InfoTags == {ifil, isng, INAM, irom, iver, ICRD, IENG, IPRD, ICOP, ICMT, ISFT}

(***************************************************************************)
(* chunk.go                                                                *)
(***************************************************************************)
\* io.ReadFull(r, buf) with len(buf) = n, on a reader holding b
ReadFull(b, n) ==
    IF n = 0 THEN [err |-> Nil, buf |-> <<>>, rest |-> b]
    ELSE IF Len(b) = 0 THEN [err |-> EOF, buf |-> <<>>, rest |-> b]
    ELSE IF Len(b) < n THEN [err |-> ErrUnexpectedEOF, buf |-> b, rest |-> <<>>]
    ELSE [err |-> Nil, buf |-> Take(b, n), rest |-> Drop(b, n)]

\* a parse that steps over a pad byte after a payload of odd length
parsePadded(b) ==
    LET t == ReadFull(b, 4) IN
    IF t.err # Nil
    THEN [err |-> t.err, id |-> <<>>, size |-> 0, data |-> <<>>, rest |-> t.rest]
    ELSE LET s == ReadFull(t.rest, 4) IN
         IF s.err # Nil
         THEN [err |-> s.err, id |-> t.buf, size |-> 0, data |-> <<>>, rest |-> s.rest]
         ELSE LET n == LittleEndian(s.buf)
                  d == ReadFull(s.rest, n)
              IN  [err |-> d.err, id |-> t.buf, size |-> n, data |-> d.buf,
                   rest |-> IF n % 2 = 1 /\ d.rest # <<>> THEN Tail(d.rest) ELSE d.rest]

\* chunk.parse: tag, length, payload
parse(b) ==
    LET t == ReadFull(b, 4) IN
    IF t.err # Nil
    THEN [err |-> t.err, id |-> <<>>, size |-> 0, data |-> <<>>, rest |-> t.rest]
    ELSE LET s == ReadFull(t.rest, 4) IN
         IF s.err # Nil
         THEN [err |-> s.err, id |-> t.buf, size |-> 0, data |-> <<>>, rest |-> s.rest]
         ELSE LET n == LittleEndian(s.buf)
                  d == ReadFull(s.rest, n)
              IN  [err |-> d.err, id |-> t.buf, size |-> n, data |-> d.buf, rest |-> d.rest]

\* an expect that takes a chunk of any tag
expectAnyTag(b, id) == parse(b)

\* chunk.expect: parse, then compare the tag
expect(b, id) ==
    LET ck == parse(b) IN
    IF ck.err # Nil THEN ck
    ELSE IF ck.id # id THEN [ck EXCEPT !.err = Errorf("expected chunk id", id \o ck.id)]
    ELSE ck

\* a reader that runs on into the bytes after the payload
newReaderOverrun(ck) == ck.data \o ck.rest

\* chunk.newReader: a reader over the payload, as the bytes it has not delivered yet
newReader(ck) == ck.data

(***************************************************************************)
(* The records of the pdta list, as binary.Read fills them.                *)
(***************************************************************************)
Field(b, from, n) == LittleEndian(SubSeq(b, from, from + n - 1))

PresetHeader(b) ==
    [PresetName |-> Take(b, 20), Preset |-> Field(b, 21, 2), Bank |-> Field(b, 23, 2),
     PresetBagNdx |-> Field(b, 25, 2), Library |-> Field(b, 27, 4), Genre |-> Field(b, 31, 4),
     Morphology |-> Field(b, 35, 4)]

Bag(b) ==
    [GenIndex |-> BitOr(Shl16(b[2], 8), b[1]), ModIndex |-> BitOr(Shl16(b[4], 8), b[3])]

Modulator(b) ==
    [ModSrcOper |-> Field(b, 1, 2), ModDestOper |-> Field(b, 3, 2), ModAmount |-> Int16(Field(b, 5, 2)),
     ModAmtSrcOper |-> Field(b, 7, 2), ModTransOper |-> Field(b, 9, 2)]

Generator(b) == [GenOper |-> Field(b, 1, 2), GenAmount |-> Int16(Field(b, 3, 2))]

Instrument(b) == [Name |-> Take(b, 20), InstBagNdx |-> Field(b, 21, 2)]

SampleHeader(b) ==
    [SampleName |-> Take(b, 20), Start |-> Field(b, 21, 4), End |-> Field(b, 25, 4),
     Startloop |-> Field(b, 29, 4), Endloop |-> Field(b, 33, 4), SampleRate |-> Field(b, 37, 4),
     OriginalPitch |-> b[41], PitchCorrection |-> Int8(b[42]), SampleLink |-> Field(b, 43, 2),
     SampleType |-> Field(b, 45, 2)]

\* the record width each case of the switch divides by
HydraWidthSwapped(id) ==
    CASE id = phdr -> 46 [] id = pbag -> 4 [] id = pmod -> 10 [] id = pgen -> 4 [] id = inst -> 22
      [] id = ibag -> 4 [] id = imod -> 10 [] id = igen -> 4 [] id = shdr -> 38
HydraWidth(id) ==
    CASE id = phdr -> 38 [] id = pbag -> 4 [] id = pmod -> 10 [] id = pgen -> 4 [] id = inst -> 22
      [] id = ibag -> 4 [] id = imod -> 10 [] id = igen -> 4 [] id = shdr -> 46

(***************************************************************************)
(* The input source.                                                       *)
(***************************************************************************)
\* the bytes of a chunk as they lie in the file
Encode(c) == c.id \o PutUint32(c.size) \o c.data

Chunk(id, data) == [id |-> id, size |-> Len(data), data |-> data]

SampleBytes == {0, 1, 128, 255}

RECURSIVE ByteSeqs(_)
ByteSeqs(n) ==
    IF n = 0 THEN {<<>>}
    ELSE {<<x>> \o s : x \in SampleBytes, s \in ByteSeqs(n - 1)}

\* low bytes for an sm24 chunk
Fill(n) == [i \in 1..n |-> (100 * i) % 256]

\* payload for a pdta chunk; its bytes stay below 128, so that every uint32
\* field stays below 2^31
HydraFill(n) == [i \in 1..n |-> (7 * i + 1) % 128]

\* the chunks an sdta list may hold
SampleChunks ==
    {Chunk(smpl, d) : d \in UNION {ByteSeqs(n) : n \in 0..MaxSmplBytes}}
    \cup {Chunk(sm24, Fill(n) ) : n \in 0..(MaxSmplBytes \div 2 + 1)}
    \cup {Chunk(junk, <<>>)}

\* text as it lies in a file: letters closed by a zero byte
Text(n) == [i \in 1..n |-> IF i = n THEN 0 ELSE 65 + (i % 26)]

\* the payload the source puts in an INFO chunk of a given tag and length
InfoPayload(id, n) == IF id \in {ifil, iver} THEN Take(<<2, 1, 4, 3, 9>>, n) ELSE Text(n)

InfoSizes(id) ==
    IF id \in {ifil, iver} THEN {3, 4, 5}
    ELSE IF id = ICMT THEN {2, 257, 65536, 65537}
    ELSE IF id = junk THEN {0, 3}
    ELSE {2, 256, 257}

\* the chunks an INFO list may hold, by tag and length
InfoCatalogue == UNION {{[id |-> id, size |-> n] : n \in InfoSizes(id)} : id \in InfoTags \cup {junk}}

\* the record widths of the file format
RecordWidth(id) ==
    CASE id \in {pbag, pgen, ibag, igen} -> 4
      [] id \in {pmod, imod} -> 10
      [] id = inst -> 22
      [] id = phdr -> 38
      [] id = shdr -> 46

\* the chunks a pdta list may hold, by tag and length: no record, MaxRecs
\* records, and MaxRecs records with one byte too many
HydraCatalogue ==
    UNION {{[id |-> id, size |-> n] : n \in {0, MaxRecs * RecordWidth(id), MaxRecs * RecordWidth(id) + 1}} :
              id \in HydraTags}
    \cup {[id |-> junk, size |-> 3]}

\* the complete pieces the source may deliver next, as bytes
Pieces ==
    IF pc \in {"smpl", "sm24"} THEN {Encode(Chunk(smpl, <<1, 2>>)), Encode(Chunk(sm24, <<3>>))}
    ELSE IF pc = "INFO" THEN {INFO}
    ELSE IF pc = "info" THEN {Encode(Chunk(ifil, InfoPayload(ifil, 4))), Encode(Chunk(INAM, Text(2)))}
    ELSE {Encode(Chunk(pbag, HydraFill(4)))}

\* where the source may end inside a piece: in the tag, after the tag, in the
\* length, after the length, in the payload
Cuts(p) == {n \in {2, 4, 6, 8, Len(p) - 1} : n >= 1 /\ n < Len(p)}

Reading == pc # "done" /\ ~eof /\ r = <<>>

AllTags == {smpl, sm24, junk} \cup InfoTags \cup HydraTags

Fed == {t \in AllTags : fedSize[t] >= 0}

FeedSample ==
    /\ Reading
    /\ pc \in {"smpl", "sm24"}
    /\ \E c \in SampleChunks :
          /\ pc = "sm24" => c.id # smpl
          /\ r' = Encode(c)
          /\ fedSize' = [fedSize EXCEPT ![c.id] = c.size]
    /\ UNCHANGED <<eof, pc, ret, err, decoded, fedType, dupFed, truncFed>>
    /\ UNCHANGED bankVars

\* the four bytes that open a LIST payload
FeedListType ==
    /\ Reading
    /\ pc = "INFO"
    /\ \E t \in {INFO, junk} :
          /\ r' = t
          /\ fedType' = t
    /\ UNCHANGED <<eof, pc, ret, err, decoded, dupFed, fedSize, truncFed>>
    /\ UNCHANGED bankVars

\* a chunk of an INFO list; a chunk of LargeChunk bytes or more comes first
\* or right after ifil, and ends its list
FeedInfo ==
    /\ Reading
    /\ pc = "info"
    /\ \E c \in InfoCatalogue :
          /\ c.id \in Fed \/ Cardinality(Fed) < MaxInfoChunks
          /\ c.size >= LargeChunk => Fed \subseteq {ifil}
          /\ r' = Encode(Chunk(c.id, InfoPayload(c.id, c.size)))
          /\ eof' = (c.size >= LargeChunk)
          /\ fedSize' = [fedSize EXCEPT ![c.id] = c.size]
          /\ dupFed' = IF c.id \in InfoTags /\ c.id \in Fed THEN dupFed \cup {c.id} ELSE dupFed
    /\ UNCHANGED <<pc, ret, err, decoded, fedType, truncFed>>
    /\ UNCHANGED bankVars

\* a chunk of a pdta list; at most MaxEmpty of its tags have a chunk of no bytes
FeedHydra ==
    /\ Reading
    /\ pc = "hydra"
    /\ \E c \in HydraCatalogue :
          /\ c.size = 0 => Cardinality({t \in HydraTags \ {c.id} : fedSize[t] = 0}) < MaxEmpty
          /\ r' = Encode(Chunk(c.id, HydraFill(c.size)))
          /\ fedSize' = [fedSize EXCEPT ![c.id] = c.size]
    /\ UNCHANGED <<eof, pc, ret, err, decoded, fedType, dupFed, truncFed>>
    /\ UNCHANGED bankVars

FeedTruncated ==
    /\ Reading
    /\ \E p \in Pieces : \E n \in Cuts(p) : r' = Take(p, n)
    /\ eof' = TRUE
    /\ truncFed' = TRUE
    /\ UNCHANGED <<pc, ret, err, decoded, fedType, dupFed, fedSize>>
    /\ UNCHANGED bankVars

FeedEnd ==
    /\ Reading
    /\ eof' = TRUE
    /\ UNCHANGED <<r, pc, ret, err, decoded, fedType, dupFed, fedSize, truncFed>>
    /\ UNCHANGED bankVars

\* a read blocks until the source has delivered a piece or has ended
Readable == pc # "done" /\ (r # <<>> \/ eof)

(***************************************************************************)
(* samples.go                                                              *)
(***************************************************************************)
\* one element of SamplesHigher, as line 27 computes it
SampleHigher(data, i) ==
    Int16(BitOr(Shl16(data[2 * i + 2], 8), Shl16(data[2 * i + 1], 8)))

SamplesHigherOf(ck) ==
    [k \in 1..(ck.size \div 2) |-> SampleHigher(ck.data, k - 1)]

SamplesLowerOf(ck) ==
    [k \in 1..ck.size |-> Int8(ck.data[k])]

\* ReadSoundFontSamples up to the first read of the sm24 header
SamplesSmpl ==
    /\ pc = "smpl"
    /\ Readable
    /\ LET ck == expect(r, smpl) IN
          /\ r' = ck.rest
          /\ IF ck.err # Nil
             THEN /\ pc' = "done"
                  /\ ret' = "nil"
                  /\ err' = ck.err
                  /\ UNCHANGED sound
             ELSE /\ pc' = "sm24"
                  /\ sound' = [sound EXCEPT !.SamplesHigher = SamplesHigherOf(ck)]
                  /\ UNCHANGED <<ret, err>>
    /\ UNCHANGED <<eof, info, infoChunks, hydra, pdtaChunks, fedType, dupFed, fedSize, truncFed>>
    /\ UNCHANGED bankVars

\* ReadSoundFontSamples from the sm24 header to its return
SamplesSm24 ==
    /\ pc = "sm24"
    /\ Readable
    /\ LET ck == expect(r, sm24) IN
          /\ r' = ck.rest
          /\ pc' = "done"
          /\ IF ck.err = EOF
             THEN /\ ret' = "value"
                  /\ err' = Nil
                  /\ UNCHANGED sound
             ELSE IF ck.err # Nil
             THEN /\ ret' = "nil"
                  /\ err' = ck.err
                  /\ UNCHANGED sound
             ELSE /\ sound' = [sound EXCEPT !.SamplesLower = SamplesLowerOf(ck)]
                  /\ ret' = "value"
                  /\ err' = Nil
    /\ UNCHANGED <<eof, info, infoChunks, hydra, pdtaChunks, fedType, dupFed, fedSize, truncFed>>
    /\ UNCHANGED bankVars

(***************************************************************************)
(* The INFO decoder.                                                       *)
(***************************************************************************)
VersionSize == 4
TextCap == 256
CommentsCap == 65536
EMU8000 == <<69, 77, 85, 56, 48, 48, 48>>

\* the zero value of SoundFontInfo
InfoZero ==
    [SfVersion |-> [Major |-> 0, Minor |-> 0], Engine |-> <<>>, Name |-> <<>>,
     ROM |-> <<>>, ROMVer |-> [Major |-> 0, Minor |-> 0], CreationDate |-> <<>>,
     Engineers |-> <<>>, Product |-> <<>>, Copyright |-> <<>>, Comments |-> <<>>,
     Software |-> <<>>]

\* Expect: read len(b) bytes and compare them with b
Expect(b, want) ==
    LET t == ReadFull(b, Len(want)) IN
    [ok |-> t.err = Nil /\ t.buf = want, err |-> t.err, rest |-> t.rest]

\* the major/minor pair of an ifil or iver payload
VersionOf(data) ==
    [Major |-> BitOr(Shl16(data[2], 8), data[1]), Minor |-> BitOr(Shl16(data[4], 8), data[3])]

\* the size tests of the switch
VersionMalformed(size) == size # VersionSize
TextTooLargeAtCap(size, cap) == size >= cap
TextTooLarge(size, cap) == size > cap

\* "if seen": the tag was met before
DuplicateIgnored(seen, id) == FALSE
Duplicate(seen, id) == seen[id]

\* the switch on chunk.id: the error it returns and the info it leaves
InfoField(i, ck) ==
    LET text(field, cap, msg) ==
            IF TextTooLarge(ck.size, cap) THEN [err |-> Errorf(msg, <<>>), info |-> i]
            ELSE [err |-> Nil, info |-> [i EXCEPT ![field] = ck.data]]
        version(field, msg) ==
            IF VersionMalformed(ck.size) THEN [err |-> Errorf(msg, <<>>), info |-> i]
            ELSE [err |-> Nil, info |-> [i EXCEPT ![field] = VersionOf(ck.data)]]
    IN  CASE ck.id = ifil -> version("SfVersion", "ifil subchunk must contain 4 bytes")
          [] ck.id = isng -> text("Engine", TextCap, "isng subchunk must contain 256 or fewer bytes")
          [] ck.id = INAM -> text("Name", TextCap, "Inam subchunk must contain 256 or fewer bytes")
          [] ck.id = irom -> text("ROM", TextCap, "irom subchunk must contain 256 or fewer bytes")
          [] ck.id = iver -> version("ROMVer", "iver subchunk must contain 4 bytes")
          [] ck.id = ICRD -> text("CreationDate", TextCap, "ICRD subchunk must contain 256 or fewer bytes")
          [] ck.id = IENG -> text("Engineers", TextCap, "IENG subchunk must contain 256 or fewer bytes")
          [] ck.id = IPRD -> text("Product", TextCap, "IPRD subchunk must contain 256 or fewer bytes")
          [] ck.id = ICOP -> text("Copyright", TextCap, "ICOP subchunk must contain 256 or fewer bytes")
          [] ck.id = ICMT -> text("Comments", CommentsCap, "ICMT subchunk must contain 65536 or fewer bytes")
          [] ck.id = ISFT -> text("Software", TextCap, "ISFT subchunk must contain 256 or fewer bytes")

\* a finish that does not ask for ifil
InfoFinishIfilOptional(seen, i) ==
    IF ~seen[isng] THEN [err |-> Nil, info |-> [i EXCEPT !.Engine = EMU8000]]
    ELSE [err |-> Nil, info |-> i]

InfoFinishNoDefault(seen, i) ==
    IF ~seen[ifil] THEN [err |-> Errorf("ifil chunk is missing", <<>>), info |-> i]
    ELSE [err |-> Nil, info |-> i]

\* the code after the loop: ifil is required, isng has a default
InfoFinish(seen, i) ==
    IF ~seen[ifil] THEN [err |-> Errorf("ifil chunk is missing", <<>>), info |-> i]
    ELSE IF ~seen[isng] THEN [err |-> Nil, info |-> [i EXCEPT !.Engine = EMU8000]]
    ELSE [err |-> Nil, info |-> i]

\* ReadSoundFontInfo: read "INFO" from the LIST payload
InfoExpect ==
    /\ pc = "INFO"
    /\ Readable
    /\ LET e == Expect(r, INFO) IN
          /\ r' = e.rest
          /\ IF e.err # Nil
             THEN pc' = "done" /\ ret' = "nil" /\ err' = e.err
             ELSE IF ~e.ok
             THEN pc' = "done" /\ ret' = "nil" /\ err' = Errorf("expected INFO", <<>>)
             ELSE pc' = "info" /\ UNCHANGED <<ret, err>>
    /\ UNCHANGED <<eof, decoded, fedType, dupFed, fedSize, truncFed>>
    /\ UNCHANGED bankVars

\* ReadSoundFontInfo: one turn of the loop, and the code after it when the loop breaks
InfoLoop ==
    /\ pc = "info"
    /\ Readable
    /\ LET ck == parse(r) IN
          /\ r' = ck.rest
          /\ IF ck.err = EOF
             THEN LET f == InfoFinish(infoChunks, info) IN
                  /\ pc' = "done"
                  /\ err' = f.err
                  /\ ret' = IF f.err = Nil THEN "value" ELSE "nil"
                  /\ info' = f.info
                  /\ UNCHANGED infoChunks
             ELSE IF ck.err # Nil
             THEN /\ pc' = "done" /\ ret' = "nil" /\ err' = ck.err
                  /\ UNCHANGED <<info, infoChunks>>
             ELSE IF ck.id \notin DOMAIN infoChunks
             THEN UNCHANGED <<pc, ret, err, info, infoChunks>>
             ELSE IF Duplicate(infoChunks, ck.id)
             THEN /\ pc' = "done" /\ ret' = "nil" /\ err' = Errorf("duplicate chunk", ck.id)
                  /\ UNCHANGED <<info, infoChunks>>
             ELSE LET f == InfoField(info, ck) IN
                  /\ infoChunks' = [infoChunks EXCEPT ![ck.id] = TRUE]
                  /\ info' = f.info
                  /\ IF f.err # Nil
                     THEN pc' = "done" /\ ret' = "nil" /\ err' = f.err
                     ELSE UNCHANGED <<pc, ret, err>>
    /\ UNCHANGED <<eof, sound, hydra, pdtaChunks, fedType, dupFed, fedSize, truncFed>>
    /\ UNCHANGED bankVars

(***************************************************************************)
(* The pdta decoder.                                                       *)
(***************************************************************************)
\* the zero value of SoundFontHydra
HydraZero ==
    [Headers |-> <<>>, PBag |-> <<>>, PresetModulators |-> <<>>, PresetGenerators |-> <<>>,
     Instuments |-> <<>>, IBag |-> <<>>, InstrumentModulators |-> <<>>,
     InstrumentGenerators |-> <<>>, Samples |-> <<>>]

\* the field of SoundFontHydra each case of the switch fills
HydraArray(id) ==
    CASE id = phdr -> "Headers" [] id = pbag -> "PBag" [] id = pmod -> "PresetModulators"
      [] id = pgen -> "PresetGenerators" [] id = inst -> "Instuments" [] id = ibag -> "IBag"
      [] id = imod -> "InstrumentModulators" [] id = igen -> "InstrumentGenerators"
      [] id = shdr -> "Samples"

HydraSizeError(id) ==
    CASE id = phdr -> "invalid preset header size" [] id = pbag -> "invalid preset bag size"
      [] id = pmod -> "invalid preset modulator size" [] id = pgen -> "invalid preset generator size"
      [] id = inst -> "invalid instrument header size" [] id = ibag -> "invalid preset bag size"
      [] id = imod -> "invalid preset modulator size" [] id = igen -> "invalid preset generator size"
      [] id = shdr -> "invalid sample header size"

\* one record of the array of a tag
HydraRecord(id, b) ==
    CASE id = phdr -> PresetHeader(b)
      [] id \in {pbag, ibag} -> Bag(b)
      [] id \in {pmod, imod} -> Modulator(b)
      [] id \in {pgen, igen} -> Generator(b)
      [] id = inst -> Instrument(b)
      [] id = shdr -> SampleHeader(b)

\* make([]T, chunk.size/w), then one record per w bytes of the payload
HydraRecords(ck) ==
    LET w == HydraWidth(ck.id) IN
    [k \in 1..(ck.size \div w) |-> HydraRecord(ck.id, SubSeq(ck.data, w * (k - 1) + 1, w * k))]

\* the tags the final loop over pdtaChunks finds unseen
MissingChunksButLast(seen) == {t \in HydraTags \ {shdr} : ~seen[t]}
MissingChunks(seen) == {t \in HydraTags : ~seen[t]}

\* ReadSoundFontHydra: one turn of the loop, and the code after it when the loop breaks
HydraLoop ==
    /\ pc = "hydra"
    /\ Readable
    /\ LET ck == parse(r) IN
          /\ r' = ck.rest
          /\ IF ck.err = EOF
             THEN /\ pc' = "done"
                  /\ IF MissingChunks(pdtaChunks) # {}
                     THEN /\ \E t \in MissingChunks(pdtaChunks) : err' = Errorf("missing chunk", t)
                          /\ ret' = "nil"
                     ELSE err' = Nil /\ ret' = "value"
                  /\ UNCHANGED <<hydra, pdtaChunks>>
             ELSE IF ck.err # Nil
             THEN /\ pc' = "done" /\ ret' = "nil" /\ err' = ck.err
                  /\ UNCHANGED <<hydra, pdtaChunks>>
             ELSE IF ck.id \notin DOMAIN pdtaChunks
             THEN UNCHANGED <<pc, ret, err, hydra, pdtaChunks>>
             ELSE /\ pdtaChunks' = [pdtaChunks EXCEPT ![ck.id] = TRUE]
                  /\ IF ck.size % HydraWidth(ck.id) # 0
                     THEN /\ pc' = "done" /\ ret' = "nil"
                          /\ err' = Errorf(HydraSizeError(ck.id), <<ck.size>>)
                          /\ UNCHANGED hydra
                     ELSE /\ hydra' = [hydra EXCEPT ![HydraArray(ck.id)] = HydraRecords(ck)]
                          /\ UNCHANGED <<pc, ret, err>>
    /\ UNCHANGED <<eof, sound, info, infoChunks, fedType, dupFed, fedSize, truncFed>>
    /\ UNCHANGED bankVars

(***************************************************************************)
(* The files ReadSoundFont is called on.                                   *)
(***************************************************************************)
\* a chunk of a list, and the chunks of a list as bytes
Sub(id, data) == [id |-> id, data |-> data]

RECURSIVE Body(_)
Body(cs) == IF cs = <<>> THEN <<>> ELSE Encode(Chunk(cs[1].id, cs[1].data)) \o Body(Tail(cs))

\* a chunk of the RIFF payload: its tag, the type tag that opens its payload,
\* the chunks after the type tag, and loose bytes that end the payload
Item(tag, type, chunks, pad) == [tag |-> tag, type |-> type, chunks |-> chunks, pad |-> pad]

\* the payload of a top-level chunk after its type tag, and the whole chunk
AfterType(it) == Body(it.chunks) \o it.pad
ItemBytes(it) == Encode(Chunk(it.tag, it.type \o AfterType(it)))

RECURSIVE Items(_)
Items(its) == IF its = <<>> THEN <<>> ELSE ItemBytes(its[1]) \o Items(Tail(its))

\* a file: the outer tag, the form type, the chunks of the payload, loose bytes
\* that end the payload, and bytes after the outer chunk
File(tag, form, items, tail, after) ==
    [tag |-> tag, form |-> form, items |-> items, tail |-> tail, after |-> after]

RiffPayload(d) == d.form \o Items(d.items) \o d.tail
FileBytes(d) == Encode(Chunk(d.tag, RiffPayload(d))) \o d.after

\* INFO lists: complete, without ifil, with an unknown chunk of odd length
InfoLists ==
    {<<Sub(ifil, InfoPayload(ifil, VersionSize)), Sub(INAM, Text(3))>>,
     <<Sub(INAM, Text(3))>>,
     <<Sub(ifil, InfoPayload(ifil, VersionSize)), Sub(junk, <<1, 2, 3>>), Sub(INAM, Text(3))>>}

\* sdta lists: without and with sm24
SdtaLists ==
    {<<Sub(smpl, <<1, 2, 255, 128>>)>>,
     <<Sub(smpl, <<1, 2, 255, 128>>), Sub(sm24, <<3, 4>>)>>}

HydraOrder == <<phdr, pbag, pmod, pgen, inst, ibag, imod, igen, shdr>>

\* pdta lists: complete, with an unknown chunk of odd length, without shdr
PdtaFull ==
    [k \in 1..Len(HydraOrder) |->
        Sub(HydraOrder[k], HydraFill(MaxRecs * RecordWidth(HydraOrder[k])))]

PdtaLists ==
    {PdtaFull,
     <<PdtaFull[1], Sub(junk, <<1, 2, 3>>)>> \o Tail(PdtaFull),
     Take(PdtaFull, Len(PdtaFull) - 1)}

Canon(i, s, p) == <<Item(LIST, INFO, i, <<>>), Item(LIST, sdta, s, <<>>), Item(LIST, pdta, p, <<>>)>>

\* the three lists of a plain file
Plain ==
    Canon(<<Sub(ifil, InfoPayload(ifil, VersionSize)), Sub(INAM, Text(3))>>,
          <<Sub(smpl, <<1, 2, 255, 128>>), Sub(sm24, <<3, 4>>)>>,
          PdtaFull)

\* a chunk of an unknown tag at the top level
JunkItem == Item(junk, <<1, 2, 3>>, <<>>, <<>>)

InsertAt(its, it, k) == Take(its, k - 1) \o <<it>> \o Drop(its, k - 1)

\* the plain lists in every order, with a wrong list type, with loose bytes
\* ending a list, and with the last list missing
Disordered ==
    {[k \in 1..3 |-> Plain[q[k]]] :
        q \in {q \in [1..3 -> 1..3] : \A x, y \in 1..3 : x # y => q[x] # q[y]}}

WrongType == {[Plain EXCEPT ![k].type = junk] : k \in 1..3}
Padded ==
    {[Canon(Plain[1].chunks, <<Sub(smpl, <<1, 2, 255, 128>>)>>, PdtaFull) EXCEPT ![k].pad = <<73, 78>>] :
        k \in 1..3}

Tails == {<<>>, <<9>>, Encode(Chunk(junk, <<1>>))}
Afters == {<<>>, <<7, 7>>}

Files ==
    {File(RIFF, sfbk, Canon(i, s, p), t, a) :
        i \in InfoLists, s \in SdtaLists, p \in PdtaLists, t \in Tails, a \in Afters}
    \cup {File(t, fm, its, <<>>, <<>>) :
        t \in {RIFF, junk}, fm \in {sfbk, junk, <<>>},
        its \in Disordered \cup WrongType \cup {Take(Plain, 2)}}
    \cup {File(RIFF, sfbk, its, <<>>, <<>>) : its \in Padded}
    \cup {File(RIFF, sfbk, InsertAt(Canon(i, Plain[2].chunks, p), JunkItem, k), <<>>, a) :
        i \in InfoLists, p \in PdtaLists, k \in 1..4, a \in Afters}

\* the file without what follows its third chunk
Trailing(d) == Len(d.items) >= 3 /\ (Len(d.items) > 3 \/ d.tail # <<>> \/ d.after # <<>>)
StripTrailing(d) == [d EXCEPT !.items = Take(d.items, 3), !.tail = <<>>, !.after = <<>>]

\* the file without its chunks of unknown tag
KnownChunks(cs) == SelectSeq(cs, LAMBDA c : c.id # junk)
StripUnknown(d) ==
    LET lists == SelectSeq(d.items, LAMBDA it : it.tag = LIST) IN
    [d EXCEPT !.items = [k \in 1..Len(lists) |-> [lists[k] EXCEPT !.chunks = KnownChunks(@)]]]
HasUnknown(d) == StripUnknown(d) # d

(***************************************************************************)
(* ReadSoundFont.                                                          *)
(***************************************************************************)
NoLocals == [info |-> <<>>, sound |-> <<>>, hydra |-> <<>>]
NoResult == [sf |-> <<>>, err |-> Nil]

\* the pointer a decoder returned
Ptr(v) == IF ret = "value" THEN <<v>> ELSE <<>>

\* a return that hands out the lists decoded so far together with the error
ReturnErrPartial(l, e) ==
    [sf |-> <<[Info |-> l.info, Samples |-> l.sound, Hydra |-> l.hydra]>>, err |-> e]

\* "return nil, err"
ReturnErr(l, e) == [sf |-> <<>>, err |-> e]

\* "return &SoundFont{...}, nil"
ReturnBank(l) == [sf |-> <<[Info |-> l.info, Samples |-> l.sound, Hydra |-> l.hydra]>>, err |-> Nil]

\* io.Copy(io.Discard, listReader)
Sink(b) == [n |-> Len(b), err |-> Nil, rest |-> <<>>]

\* ReadSoundFont returns
Return(res) ==
    /\ stage' = "returned"
    /\ result' = res
    /\ UNCHANGED <<r, pc, ret, err>>

\* ReadSoundFont calls a decoder on a list reader
Call(entry, at, rd) ==
    /\ stage' = at
    /\ pc' = entry
    /\ r' = rd
    /\ ret' = "pending"
    /\ err' = Nil
    /\ UNCHANGED result

\* from the entry to the call of ReadSoundFontInfo
BankStart ==
    /\ stage = "start"
    /\ LET riff == expect(src, RIFF)
           e == Expect(newReader(riff), sfbk)
           l == expect(e.rest, LIST)
       IN  /\ src' = riff.rest
           /\ IF riff.err # Nil
              THEN Return(ReturnErr(locals, riff.err)) /\ UNCHANGED outer
              ELSE IF e.err # Nil
              THEN Return(ReturnErr(locals, e.err)) /\ outer' = e.rest
              ELSE IF ~e.ok
              THEN Return(ReturnErr(locals, Errorf("expected sfbk", <<>>))) /\ outer' = e.rest
              ELSE IF l.err # Nil
              THEN Return(ReturnErr(locals, l.err)) /\ outer' = l.rest
              ELSE Call("INFO", "info", newReader(l)) /\ outer' = l.rest
    /\ UNCHANGED <<eof, decoded, fedType, dupFed, fedSize, truncFed, locals, file, kind, again, first>>

\* from the return of ReadSoundFontInfo to the call of ReadSoundFontSamples
BankAfterInfo ==
    /\ stage = "info"
    /\ pc = "done"
    /\ LET l == expect(outer, LIST)
           e == Expect(newReader(l), sdta)
           got == [locals EXCEPT !.info = Ptr(info)]
       IN  IF err # Nil
           THEN Return(ReturnErr(got, err)) /\ UNCHANGED <<outer, locals>>
           ELSE /\ locals' = got
                /\ outer' = l.rest
                /\ IF l.err # Nil
                   THEN Return(ReturnErr(got, l.err))
                   ELSE IF e.err # Nil
                   THEN Return(ReturnErr(got, e.err))
                   ELSE IF ~e.ok
                   THEN Return(ReturnErr(got, Errorf("expected sdta", <<>>)))
                   ELSE Call("smpl", "sdta", e.rest)
    /\ UNCHANGED <<eof, decoded, fedType, dupFed, fedSize, truncFed, src, file, kind, again, first>>

\* from the return of ReadSoundFontSamples to the call of ReadSoundFontHydra
BankAfterSamples ==
    /\ stage = "sdta"
    /\ pc = "done"
    /\ LET l == expect(outer, LIST)
           e == Expect(newReader(l), pdta)
           got == [locals EXCEPT !.sound = Ptr(sound)]
       IN  IF err # Nil
           THEN Return(ReturnErr(got, err)) /\ UNCHANGED <<outer, locals>>
           ELSE /\ locals' = got
                /\ outer' = l.rest
                /\ IF l.err # Nil
                   THEN Return(ReturnErr(got, l.err))
                   ELSE IF e.err # Nil
                   THEN Return(ReturnErr(got, e.err))
                   ELSE IF ~e.ok
                   THEN Return(ReturnErr(got, Errorf("expected pdta", <<>>)))
                   ELSE Call("hydra", "pdta", e.rest)
    /\ UNCHANGED <<eof, decoded, fedType, dupFed, fedSize, truncFed, src, file, kind, again, first>>

\* from the return of ReadSoundFontHydra to the return of ReadSoundFont
BankAfterHydra ==
    /\ stage = "pdta"
    /\ pc = "done"
    /\ LET got == [locals EXCEPT !.hydra = Ptr(hydra)]
           sunk == Sink(r)
       IN  /\ stage' = "returned"
           /\ IF err # Nil
              THEN result' = ReturnErr(got, err) /\ UNCHANGED <<r, locals>>
              ELSE /\ locals' = got
                   /\ r' = sunk.rest
                   /\ result' = IF sunk.err # Nil THEN ReturnErr(got, sunk.err) ELSE ReturnBank(got)
    /\ UNCHANGED <<eof, pc, ret, err, decoded, fedType, dupFed, fedSize, truncFed,
                   src, outer, file, kind, again, first>>

\* the state at the entry of ReadSoundFont, called on the file of layout d
Enter(d) ==
    /\ file' = d
    /\ src' = FileBytes(d)
    /\ outer' = <<>>
    /\ stage' = "start"
    /\ locals' = NoLocals
    /\ result' = NoResult
    /\ r' = <<>>
    /\ pc' = "idle"
    /\ ret' = "pending"
    /\ err' = Nil
    /\ sound' = [SamplesHigher |-> <<>>, SamplesLower |-> <<>>]
    /\ info' = InfoZero
    /\ infoChunks' = [t \in InfoTags |-> FALSE]
    /\ hydra' = HydraZero
    /\ pdtaChunks' = [t \in HydraTags |-> FALSE]

\* the caller keeps what the first call returned and calls ReadSoundFont on the second file
CallAgain ==
    /\ stage = "returned"
    /\ again # <<>>
    /\ first' = <<[file |-> file, result |-> result]>>
    /\ again' = <<>>
    /\ Enter(again[1])
    /\ UNCHANGED <<eof, fedType, dupFed, fedSize, truncFed, kind>>

\* no call of ReadSoundFont: a decoder runs on its own
Idle ==
    /\ src = <<>>
    /\ outer = <<>>
    /\ stage = "none"
    /\ locals = NoLocals
    /\ result = NoResult
    /\ file = File(<<>>, <<>>, <<>>, <<>>, <<>>)
    /\ kind = "once"
    /\ again = <<>>
    /\ first = <<>>

InitCommon ==
    /\ r = <<>>
    /\ eof = FALSE
    /\ ret = "pending"
    /\ err = Nil
    /\ sound = [SamplesHigher |-> <<>>, SamplesLower |-> <<>>]
    /\ info = InfoZero
    /\ infoChunks = [t \in InfoTags |-> FALSE]
    /\ hydra = HydraZero
    /\ pdtaChunks = [t \in HydraTags |-> FALSE]
    /\ fedType = <<>>
    /\ dupFed = {}
    /\ fedSize = [t \in AllTags |-> -1]
    /\ truncFed = FALSE

InitSamples == InitCommon /\ Idle /\ pc = "smpl"

NextSamples ==
    \/ FeedSample
    \/ FeedTruncated
    \/ FeedEnd
    \/ SamplesSmpl
    \/ SamplesSm24

SpecSamples == InitSamples /\ [][NextSamples]_vars

InitInfo == InitCommon /\ Idle /\ pc = "INFO"

NextInfo ==
    \/ FeedListType
    \/ FeedInfo
    \/ FeedTruncated
    \/ FeedEnd
    \/ InfoExpect
    \/ InfoLoop

SpecInfo == InitInfo /\ [][NextInfo]_vars

InitHydra == InitCommon /\ Idle /\ pc = "hydra"

NextHydra ==
    \/ FeedHydra
    \/ FeedTruncated
    \/ FeedEnd
    \/ HydraLoop

SpecHydra == InitHydra /\ [][NextHydra]_vars

\* a list reader holds its whole list from the start: a read never waits
InitBank ==
    /\ r = <<>>
    /\ eof = TRUE
    /\ pc = "idle"
    /\ ret = "pending"
    /\ err = Nil
    /\ sound = [SamplesHigher |-> <<>>, SamplesLower |-> <<>>]
    /\ info = InfoZero
    /\ infoChunks = [t \in InfoTags |-> FALSE]
    /\ hydra = HydraZero
    /\ pdtaChunks = [t \in HydraTags |-> FALSE]
    /\ fedType = <<>>
    /\ dupFed = {}
    /\ fedSize = [t \in AllTags |-> -1]
    /\ truncFed = FALSE
    /\ \E d \in Files : \E k \in {"once", "trailing", "unknown"} :
          /\ k = "trailing" => Trailing(d)
          /\ k = "unknown" => HasUnknown(d)
          /\ file = d
          /\ kind = k
          /\ again = (IF k = "trailing" THEN <<StripTrailing(d)>>
                      ELSE IF k = "unknown" THEN <<StripUnknown(d)>> ELSE <<>>)
          /\ src = FileBytes(d)
    /\ outer = <<>>
    /\ stage = "start"
    /\ locals = NoLocals
    /\ result = NoResult
    /\ first = <<>>

NextBank ==
    \/ BankStart
    \/ InfoExpect
    \/ InfoLoop
    \/ BankAfterInfo
    \/ SamplesSmpl
    \/ SamplesSm24
    \/ BankAfterSamples
    \/ HydraLoop
    \/ BankAfterHydra
    \/ CallAgain

SpecBank == InitBank /\ [][NextBank]_vars

(***************************************************************************)
(* The error kinds of the specification, as the messages the code returns. *)
(***************************************************************************)
TruncatedInput == {"unexpected EOF"}

InvalidChunkSize ==
    {"invalid preset header size", "invalid preset bag size",
     "invalid preset modulator size", "invalid preset generator size",
     "invalid instrument header size", "invalid sample header size"}

MalformedField == {"ifil subchunk must contain 4 bytes", "iver subchunk must contain 4 bytes"}

FieldTooLarge ==
    {"isng subchunk must contain 256 or fewer bytes", "Inam subchunk must contain 256 or fewer bytes",
     "irom subchunk must contain 256 or fewer bytes", "ICRD subchunk must contain 256 or fewer bytes",
     "IENG subchunk must contain 256 or fewer bytes", "IPRD subchunk must contain 256 or fewer bytes",
     "ICOP subchunk must contain 256 or fewer bytes", "ICMT subchunk must contain 65536 or fewer bytes",
     "ISFT subchunk must contain 256 or fewer bytes"}

DuplicateField == {"duplicate chunk"}
MissingRequiredField == {"ifil chunk is missing"}
MissingChunk == {"missing chunk"}

Done == pc = "done"
Succeeded == pc = "done" /\ ret = "value" /\ err = Nil
Failed == pc = "done" /\ ret = "nil" /\ err # Nil

\* the piece in the reader is a chunk of this tag, not parsed yet
Unread(t) == Len(r) >= 4 /\ Take(r, 4) = t

\* C1: a list that ends inside a chunk (in the tag, the length or the payload)
\* fails with a truncation error; it is never taken for the end of the list.
C1_TruncatedInputFails ==
    (Done /\ truncFed) => (Failed /\ err.msg \in TruncatedInput)

(***************************************************************************)
(* The sdta decoder.                                                       *)
(***************************************************************************)
\* the sdta list began with a complete smpl chunk of an even length, which was decoded
SmplDecoded == fedSize[smpl] >= 0 /\ fedSize[smpl] % 2 = 0 /\ pc = "done" /\ ~truncFed

\* C2: after a smpl chunk of N samples, end of input gives success with no low
\* bytes, an sm24 chunk of N bytes gives success with N low bytes, an sm24 chunk
\* of any other length fails with InvalidChunkSize; so a successful result has
\* SamplesLower empty or as long as SamplesHigher.
C2_Sm24LengthMatchesSmpl ==
    /\ SmplDecoded /\ fedSize[junk] = -1 =>
          LET N == fedSize[smpl] \div 2 IN
          /\ fedSize[sm24] = -1 => Succeeded /\ Len(sound.SamplesLower) = 0
          /\ fedSize[sm24] = N => Succeeded /\ Len(sound.SamplesLower) = N
          /\ fedSize[sm24] \notin {-1, N} => Failed /\ err.msg \in InvalidChunkSize
    /\ Succeeded => Len(sound.SamplesLower) \in {0, Len(sound.SamplesHigher)}

\* C3: a smpl chunk of an odd byte length makes the decode fail with
\* InvalidChunkSize, and a list that does not begin with a smpl chunk fails.
C3_SmplLengthEven ==
    /\ (Done /\ fedSize[smpl] >= 0 /\ fedSize[smpl] % 2 = 1) =>
          Failed /\ err.msg \in InvalidChunkSize
    /\ (Done /\ fedSize[smpl] = -1) => Failed

\* C4: SamplesHigher[i] is the signed 16-bit little-endian value of payload
\* bytes 2i and 2i+1 of the smpl chunk (the payload follows the 8 header bytes).
C4_SampleIsLittleEndianPair ==
    [][(pc = "smpl" /\ pc' = "sm24") =>
          \A i \in 0..(Len(sound'.SamplesHigher) - 1) :
              sound'.SamplesHigher[i + 1] = Int16(r[8 + 2 * i + 2] * 256 + r[8 + 2 * i + 1])]_vars

(***************************************************************************)
(* The INFO decoder.                                                       *)
(***************************************************************************)
\* the size rule of a recognised tag
WithinRule(t, n) ==
    IF t \in {ifil, iver} THEN n = 4 ELSE IF t = ICMT THEN n <= 65536 ELSE n <= 256

\* the field of SoundFontInfo a text tag is stored in
TextFieldOf(t) ==
    CASE t = isng -> "Engine" [] t = INAM -> "Name" [] t = irom -> "ROM"
      [] t = ICRD -> "CreationDate" [] t = IENG -> "Engineers" [] t = IPRD -> "Product"
      [] t = ICOP -> "Copyright" [] t = ICMT -> "Comments" [] t = ISFT -> "Software"

\* the decoder read a whole, well-formed INFO list to its end
InfoExhausted ==
    /\ Done /\ eof /\ r = <<>> /\ ~truncFed
    /\ fedType = INFO
    /\ dupFed = {}
    /\ \A t \in InfoTags : fedSize[t] >= 0 => WithinRule(t, fedSize[t])

C9_DuplicateFieldFails ==
    /\ (dupFed # {} /\ r = <<>>) =>
          Failed /\ err.msg \in DuplicateField /\ err.arg \in dupFed
    /\ Succeeded => dupFed = {}

C9_Witness ==
    /\ Failed /\ err.msg \in DuplicateField
    /\ INAM \in dupFed
    /\ fedSize[junk] >= 0 /\ fedSize[ifil] >= 0

ArrayOf(t) ==
    CASE t = phdr -> hydra.Headers [] t = pbag -> hydra.PBag [] t = pmod -> hydra.PresetModulators
      [] t = pgen -> hydra.PresetGenerators [] t = inst -> hydra.Instuments [] t = ibag -> hydra.IBag
      [] t = imod -> hydra.InstrumentModulators [] t = igen -> hydra.InstrumentGenerators
      [] t = shdr -> hydra.Samples

\* C5: after a successful decode each of the nine arrays holds at least one
\* record (the sentinel).
C5_HydraArraysNonEmpty ==
    Succeeded => \A t \in HydraTags : Len(ArrayOf(t)) >= 1

\* the decoder read a whole pdta list of well-sized chunks to its end
HydraExhausted ==
    /\ Done /\ eof /\ r = <<>> /\ ~truncFed
    /\ \A t \in HydraTags : fedSize[t] >= 0 => fedSize[t] % RecordWidth(t) = 0

\* C6: at the end of a list in which one of the nine tags never appeared the
\* decode fails with MissingChunk, and the tag it names is one that never
\* appeared; a list with all nine tags, in any order, succeeds.
C6_MissingChunkNamesMissingTag ==
    /\ HydraExhausted =>
          IF \E t \in HydraTags : fedSize[t] = -1
          THEN Failed /\ err.msg \in MissingChunk
          ELSE Succeeded
    /\ (Done /\ err.msg \in MissingChunk) => (err.arg \in HydraTags /\ fedSize[err.arg] = -1)
    /\ Succeeded => \A t \in HydraTags : fedSize[t] >= 0

C6_Witness ==
    /\ HydraExhausted /\ Failed
    /\ err = Errorf("missing chunk", shdr)
    /\ \A t \in HydraTags \ {shdr} : fedSize[t] >= 0

\* C7: once a chunk of one of the nine tags has been parsed, a length that is
\* not a multiple of the record width has failed the decode with
\* InvalidChunkSize, and a length that is a multiple has left an array of
\* length / width records.
C7_RecordWidthDividesLength ==
    \A t \in HydraTags :
        (fedSize[t] >= 0 /\ ~Unread(t)) =>
            IF fedSize[t] % RecordWidth(t) # 0
            THEN Failed /\ err.msg \in InvalidChunkSize /\ err.arg = <<fedSize[t]>>
            ELSE Len(ArrayOf(t)) = fedSize[t] \div RecordWidth(t)

C7_Witness ==
    /\ fedSize[shdr] = 46 * MaxRecs /\ Len(hydra.Samples) = MaxRecs
    /\ fedSize[phdr] = 38 * MaxRecs + 1
    /\ Failed /\ err.msg = "invalid preset header size"

(***************************************************************************)
(* ReadSoundFont: the claims on the assembled bank.                        *)
(***************************************************************************)
BankDone == stage = "returned"
BankSucceeded == stage = "returned" /\ result.err = Nil /\ result.sf # <<>>
BankFailed == stage = "returned" /\ result.err # Nil

ListTypes == <<INFO, sdta, pdta>>

\* the layout ReadSoundFont asks for
WellOrdered(d) ==
    /\ d.tag = RIFF
    /\ Len(RiffPayload(d)) >= Len(sfbk)
    /\ Take(RiffPayload(d), Len(sfbk)) = sfbk
    /\ Len(d.items) >= Len(ListTypes)
    /\ \A k \in 1..Len(ListTypes) : d.items[k].tag = LIST /\ d.items[k].type = ListTypes[k]

IsSuffix(s, t) == Len(s) <= Len(t) /\ s = Drop(t, Len(t) - Len(s))

ComparedUnknown == BankDone /\ kind = "unknown" /\ first # <<>>

\* C12: a chunk of an unknown tag is skipped wherever it lies, inside the INFO
\* list, inside the pdta list, or at the top level between the lists: the
\* call returns what it returns on the same file without that chunk.
C12_UnknownChunkSkipped == ComparedUnknown => first[1].result = result

\* the decoders that come after a failure have not run
SamplesUntouched == sound = [SamplesHigher |-> <<>>, SamplesLower |-> <<>>]
HydraUntouched == hydra = HydraZero /\ pdtaChunks = [t \in HydraTags |-> FALSE]

\* C13: ReadSoundFont returns either a SoundFont whose Info, Samples and Hydra
\* are all non-nil together with a nil error, or nil together with an error.
\* Nothing is handed out before the return.  The error of a decoder is the
\* error returned, and after a failure no later list has been decoded.
C13_BankOrError ==
    /\ BankDone =>
          \/ /\ result.err = Nil
             /\ Len(result.sf) = 1
             /\ result.sf[1].Info # <<>>
             /\ result.sf[1].Samples # <<>>
             /\ result.sf[1].Hydra # <<>>
          \/ /\ result.err # Nil
             /\ result.sf = <<>>
    /\ ~BankDone => result = NoResult
    /\ BankFailed /\ err # Nil => result.err = err
    /\ BankFailed /\ locals.info = <<>> => SamplesUntouched /\ HydraUntouched
    /\ BankFailed /\ locals.sound = <<>> => HydraUntouched

\* the sdta decoder has failed after the INFO list was decoded
C13_Witness ==
    /\ BankFailed
    /\ locals.info # <<>>
    /\ locals.sound = <<>>
    /\ err # Nil
    /\ result = [sf |-> <<>>, err |-> err]

\* a file of the right layout whose INFO list has no ifil chunk and no loose bytes
NoIfil(d) ==
    /\ WellOrdered(d)
    /\ d.items[1].pad = <<>>
    /\ \A k \in 1..Len(d.items[1].chunks) : d.items[1].chunks[k].id # ifil

\* where the pdta LIST chunk begins in the file, and what the source has delivered
PdtaOffset(d) ==
    Len(RIFF) + Len(PutUint32(0)) + Len(d.form) + Len(ItemBytes(d.items[1])) + Len(ItemBytes(d.items[2]))
Consumed == Len(FileBytes(file)) - Len(src)

\* C14, as stated: on a file without ifil ReadSoundFont fails with "ifil chunk
\* is missing", and at that moment the source has delivered no byte of the
\* pdta list and the pdta decoder has not run.
C14_NoPdtaByteConsumed ==
    BankDone /\ NoIfil(file) =>
        /\ BankFailed
        /\ result.err.msg \in MissingRequiredField
        /\ Consumed <= PdtaOffset(file)
        /\ HydraUntouched

\* C14, amended: on a file without ifil ReadSoundFont fails with "ifil chunk
\* is missing"; at that moment the pdta decoder has not run and the reader of
\* the RIFF payload still holds the whole sdta and pdta chunks, unread, while
\* the source itself has delivered the RIFF chunk to its end.
C14_NoPdtaByteRead ==
    BankDone /\ NoIfil(file) =>
        /\ BankFailed
        /\ result.err.msg \in MissingRequiredField
        /\ result.sf = <<>>
        /\ SamplesUntouched
        /\ HydraUntouched
        /\ outer = Items(Tail(file.items)) \o file.tail
        /\ src = file.after

\* a file without ifil, with bytes after its RIFF chunk, has failed
C14_Witness ==
    /\ BankFailed
    /\ NoIfil(file)
    /\ result.err.msg \in MissingRequiredField
    /\ IsSuffix(ItemBytes(file.items[3]) \o file.tail, outer)
    /\ file.after # <<>>
    /\ src = file.after

\* the first call was on a file with bytes after its third chunk, the second
\* on the same file without them, and both have returned
ComparedTrailing == BankDone /\ kind = "trailing" /\ first # <<>>

\* what follows the third chunk in the RIFF payload
AfterLists(d) == Items(Drop(d.items, Len(ListTypes))) \o d.tail

\* C15: when the three lists decode, bytes after the pdta list in the RIFF
\* payload and bytes after the RIFF chunk change nothing: they are never
\* read, no error comes of them, and the call returns what it returns on
\* the same file without them.
C15_TrailingBytesIgnored ==
    /\ ComparedTrailing /\ BankSucceeded => first[1].result = result
    /\ BankSucceeded => outer = AfterLists(file) /\ src = file.after

\* a file with bytes after its pdta list and after its RIFF chunk has been
\* decoded, and so has the same file without them
C15_Witness ==
    /\ ComparedTrailing
    /\ BankSucceeded
    /\ AfterLists(first[1].file) # <<>>
    /\ first[1].file.after # <<>>
    /\ first[1].result = result

(***************************************************************************)
(* chunk.go: the claim on chunk framing.                                   *)
(***************************************************************************)
HeaderLen == Len(RIFF) + Len(PutUint32(0))

\* the length the chunk at the head of b declares, and whether b holds all of it
Declared(b) == LittleEndian(SubSeq(b, Len(RIFF) + 1, HeaderLen))
Whole(b) == Len(b) >= HeaderLen /\ Len(b) >= HeaderLen + Declared(b)

\* the N bytes after the header of the chunk at the head of b
Payload(b) == SubSeq(b, HeaderLen + 1, HeaderLen + Declared(b))

\* the reader the next step parses a chunk from, <<>> if it parses none
NextParse ==
    IF stage = "start" THEN src
    ELSE IF pc \in {"smpl", "sm24", "info", "hydra"} THEN r
    ELSE IF stage \in {"info", "sdta"} /\ pc = "done" /\ err = Nil THEN outer
    ELSE <<>>

\* parse of a reader that holds a whole chunk: 8 + N bytes taken, N bytes of
\* payload, and a sub-reader of these N bytes
ParseExact(b) ==
    LET ck == parse(b) IN
    /\ ck.err = Nil
    /\ ck.id = Take(b, Len(RIFF))
    /\ ck.size = Declared(b)
    /\ Len(ck.data) = Declared(b)
    /\ ck.data = Payload(b)
    /\ ck.rest = Drop(b, HeaderLen + Declared(b))
    /\ Len(b) - Len(ck.rest) = HeaderLen + Declared(b)
    /\ newReader(ck) = Payload(b)

\* a decoder reads a chunk from its list reader
DecoderStep ==
    pc \in {"smpl", "sm24", "info", "hydra"} /\ Whole(r) =>
        r' = Drop(r, HeaderLen + Declared(r))

\* ReadSoundFont reads the next LIST chunk and hands its payload to a decoder
ListStep ==
    stage \in {"info", "sdta"} /\ pc = "done" /\ err = Nil /\ Whole(outer) =>
        /\ outer' = Drop(outer, HeaderLen + Declared(outer))
        /\ stage' # "returned" => r' = Drop(Payload(outer), Len(sdta))

\* ReadSoundFont reads the RIFF chunk, and in its payload the first LIST chunk
StartStep ==
    stage = "start" /\ Whole(src) =>
        /\ src' = Drop(src, HeaderLen + Declared(src))
        /\ stage' # "returned" =>
              LET lists == Drop(Payload(src), Len(sfbk)) IN
              /\ r' = Payload(lists)
              /\ outer' = Drop(lists, HeaderLen + Declared(lists))

\* C16: a successful parse of a chunk that declares N bytes takes exactly
\* 8 + N bytes from its reader and gives a payload of exactly N bytes; no pad
\* byte is stepped over, so the next chunk starts at the byte right after the
\* payload, also when N is odd; and the reader over a payload holds these N
\* bytes and nothing after them.
C16_ChunkFraming ==
    [][/\ Whole(NextParse) => ParseExact(NextParse)
       /\ DecoderStep
       /\ ListStep
       /\ StartStep]_vars

\* chunks of odd length have been read, in the INFO list and in the pdta
\* list, and the chunks after them were read from the right place
C16_Witness ==
    /\ BankSucceeded
    /\ \E k \in 1..Len(file.items[1].chunks) :
          file.items[1].chunks[k].id = junk /\ Len(file.items[1].chunks[k].data) % 2 = 1
    /\ \E k \in 1..Len(file.items[3].chunks) :
          file.items[3].chunks[k].id = junk /\ Len(file.items[3].chunks[k].data) % 2 = 1
    /\ info.Name = Text(3)
    /\ Len(hydra.Samples) = MaxRecs

====
